---------------------------- MODULE Spec2Model ----------------------------
(***************************************************************************)
(* A model of the BTCP tool bridge of btcp-cowork:                         *)
(*                                                                         *)
(*   - the browser_snapshot size guard of the btcp-browser plugin          *)
(*     (SpecSnapshot),                                                     *)
(*   - the extension's Host Router (background.ts handleMessage) relaying  *)
(*     btcp:* messages to the content script's executeBTCPCommand          *)
(*     (SpecBridge, FairBridge),                                           *)
(*   - the plugin's lazily launched agent, getAgent / browser_close and    *)
(*     the tools that dispatch Commands (SpecPlugin),                      *)
(*   - the plugin's tool selection and parameter transformation,           *)
(*     filterTools / transformParams (SpecTools),                          *)
(*   - the Plugin Engine running the registered plugins around one         *)
(*     provider call (SpecEngine),                                         *)
(*   - the conversion of a thrown value into the `error` of a failure      *)
(*     Response at each catch site of the bridge (SpecFailure).            *)
(*                                                                         *)
(* The BrowserAgent itself (package btcp-browser-agent) is an external     *)
(* collaborator: each of its promises may resolve, reject or stay pending. *)
(***************************************************************************)
EXTENDS Integers, Sequences, FiniteSets, TLC

VARIABLES
    \* ---- browser_snapshot (plugin, index.ts:177-199) ----
    maxSnapshotSize,   \* config.maxSnapshotSize
    snapPc,            \* "idle" | "got" | "done": position in browser_snapshot.execute
    snapIn,            \* what agent.snapshot() returned
    snapOut,           \* what the tool returned
    \* ---- Host Router and content script (background.ts, content.ts) ----
    activeTab,         \* the focused tab, 0 when there is none
    tabState,          \* per tab: "noscript" | "ready" | "closed"
    browserAgent,      \* per tab: content.ts `browserAgent` is non-null
    launchDone,        \* per tab: a launch() of that agent has completed
    launchFailed,      \* per tab: a launch() of that agent was rejected
    req,               \* per message: the handler's position and what the sender got
    \* ---- plugin session (part_000: getAgent, browser_close, tools) ----
    agent,             \* "null" | "own" | "provided": the closure's `agent`
    agentLaunched,     \* the closure's `agentLaunched` flag
    call,              \* per tool execution: its position and result
    launchCalls,       \* launch() calls since creation / the last close, failed ones not counted
    closeCount,        \* completed agent.close() calls
    launchEpoch,       \* closeCount when a launch() last completed, -1 if never
    contextAgent,      \* context.btcpAgent of the request in progress, "none" without one
    \* ---- tool selection (index.ts: filterTools, transformParams) ----
    enabled,           \* config.enabled
    toolset,           \* config.toolset: a preset name or an explicit list of names
    injectSystemPrompt,\* config.injectSystemPrompt
    params,            \* the request params: tools and system
    paramsBefore,      \* params as they were when transformParams was called
    tpPc,              \* "idle" | "returned" | "threw": last transformParams call
    allTools,          \* the tool table handed to filterTools
    filtered,          \* what filterTools made of allTools
    \* ---- Plugin Engine ----
    plugins,           \* the registered plugins, in registration order
    enginePc,          \* position of the run
    cursor,            \* index, in pipeline order, of the plugin whose stage runs
    inStage,           \* the plugins whose transformParams has started and not finished
    stageLog,          \* names appended by each plugin's transformParams, in order
    providerCalls,     \* number of provider calls made for the request
    \* ---- failure Responses ----
    thrown,            \* the value a catch clause received
    producer,          \* the catch site, "" before it ran
    failure,           \* the Response the site produced
    \* ---- executeWithCallbacks (index.ts) ----
    callbacks,         \* config.onToolCall / onToolResult / onError: what each does
    cbTool,            \* the tool being executed
    cbPc,              \* "idle" | "executing" | "returned" | "threw"
    cbLog,             \* the callbacks invoked for this execution, in order
    cbOperation,       \* how the executor settled: "none" | "returned" | "threw"
    cbError,           \* whose error the tool call threw, "none" if it did not throw
    \* ---- BrowserFileSystemService (part_006) ----
    rootHandle,        \* whether a folder has been granted
    fs,                \* the granted folder: normalised path -> entry
    fileOp             \* the last move / rename tool call and its ToolResult

snapVars   == <<maxSnapshotSize, snapPc, snapIn, snapOut>>
bridgeVars == <<activeTab, tabState, browserAgent, launchDone, launchFailed, req>>
pluginVars == <<agent, agentLaunched, call, launchCalls, closeCount, launchEpoch,
                contextAgent>>
toolVars   == <<enabled, toolset, injectSystemPrompt, params, paramsBefore, tpPc,
                allTools, filtered>>
engineVars == <<plugins, enginePc, cursor, inStage, stageLog, providerCalls>>
failVars   == <<thrown, producer, failure>>
cbVars     == <<callbacks, cbTool, cbPc, cbLog, cbOperation, cbError>>
fileVars   == <<rootHandle, fs, fileOp>>
vars       == <<snapVars, bridgeVars, pluginVars,
                 toolVars, engineVars, failVars, cbVars, fileVars>>

(***************************************************************************)
(* Bounds                                                                  *)
(***************************************************************************)
MaxTextLen == 3        \* longest snapshot text the agent returns
MaxSizeBound == 48     \* largest configured maxSnapshotSize
MaxRefs == 1           \* most entries of a snapshot's refs table
MaxReqs == 2           \* btcp:* messages sent through the router
MaxCalls == 3          \* tool executions of one plugin instance
MaxListLen == 2        \* longest explicit toolset list
MaxTable == 2          \* most entries of a tool table filterTools is tried on
MaxPlugins == 3        \* most plugins registered with the engine
MaxMessageLen == 3     \* longest message of a thrown value
MaxPathLen == 3        \* longest path or name handed to a file tool

(***************************************************************************)
(* browser_snapshot: JSON.stringify and the size guard                     *)
(***************************************************************************)
\* Characters a snapshot text is drawn from: a plain one, and the two that
\* JSON.stringify escapes.
Alphabet == {"a", "\"", "\\"}

RECURSIVE SeqsUpTo(_, _)
SeqsUpTo(S, n) ==
    IF n = 0 THEN {<<>>}
    ELSE LET shorter == SeqsUpTo(S, n - 1)
         IN  shorter \cup {Append(s, c) : s \in shorter, c \in S}

\* JSON.stringify of one character of a string
JsonEscape(c) ==
    IF c = "\"" THEN "\\\""
    ELSE IF c = "\\" THEN "\\\\"
    ELSE c

RECURSIVE JsonChars(_)
JsonChars(s) ==
    IF s = <<>> THEN "" ELSE JsonEscape(Head(s)) \o JsonChars(Tail(s))

\* JSON.stringify of a string value (a sequence of characters)
JsonString(s) == "\"" \o JsonChars(s) \o "\""

\* refs: Record<string, { role }>; entry i is "e<i>": {"role":"button"}
RECURSIVE JsonRefEntries(_)
JsonRefEntries(n) ==
    IF n = 0 THEN ""
    ELSE (IF n > 1 THEN JsonRefEntries(n - 1) \o "," ELSE "")
         \o "\"e" \o ToString(n) \o "\":{\"role\":\"button\"}"

JsonRefs(n) == "{" \o JsonRefEntries(n) \o "}"

\* JSON.stringify of a snapshot or a tool result: own keys in insertion order
JSONStringify(o) ==
    "{\"snapshot\":" \o JsonString(o.snapshot)
    \o (IF "refs" \in DOMAIN o THEN ",\"refs\":" \o JsonRefs(o.refs) ELSE "")
    \o (IF "_truncated" \in DOMAIN o
        THEN ",\"_truncated\":" \o (IF o["_truncated"] THEN "true" ELSE "false")
        ELSE "")
    \o (IF "_message" \in DOMAIN o
        THEN ",\"_message\":\"" \o o["_message"] \o "\""
        ELSE "")
    \o "}"

\* What agent.snapshot() can return: { snapshot: string, refs?: {...} }
Snapshots ==
    {[snapshot |-> s] : s \in SeqsUpTo(Alphabet, MaxTextLen)}
    \cup {[snapshot |-> s, refs |-> n] :
            s \in SeqsUpTo(Alphabet, MaxTextLen), n \in 0..MaxRefs}

ExceedsLimitOffByOne(len, max) == len >= max

\* index.ts:190  snapshotStr.length > maxSnapshotSize
ExceedsLimit(len, max) == len > max

\* index.ts:194  `Snapshot truncated to ${maxSnapshotSize} chars`
TruncatedMessage(max) == "Snapshot truncated to " \o ToString(max) \o " chars"

\* index.ts:189-197: the value browser_snapshot returns for a snapshot
browser_snapshot(snapshot, max) ==
    IF ExceedsLimit(Len(JSONStringify(snapshot)), max)
    THEN snapshot @@ ("_truncated" :> TRUE) @@ ("_message" :> TruncatedMessage(max))
    ELSE snapshot

NoSnapshot == [none |-> TRUE]

SnapInit ==
    /\ maxSnapshotSize \in 0..MaxSizeBound
    /\ snapPc = "idle"
    /\ snapIn = NoSnapshot
    /\ snapOut = NoSnapshot

\* index.ts:186-187: agent.snapshot(args) resolves
AgentSnapshot(s) ==
    /\ snapPc = "idle"
    /\ snapIn' = s
    /\ snapPc' = "got"
    /\ UNCHANGED <<maxSnapshotSize, snapOut, bridgeVars, pluginVars,
                 toolVars, engineVars, failVars, cbVars, fileVars>>

\* index.ts:189-197: the guard and the return
SnapshotReturn ==
    /\ snapPc = "got"
    /\ snapOut' = browser_snapshot(snapIn, maxSnapshotSize)
    /\ snapPc' = "done"
    /\ UNCHANGED <<maxSnapshotSize, snapIn, bridgeVars, pluginVars,
                 toolVars, engineVars, failVars, cbVars, fileVars>>

SnapNext ==
    \/ \E s \in Snapshots : AgentSnapshot(s)
    \/ SnapshotReturn

(***************************************************************************)
(* Host Router (background.ts) and content script (content.ts)            *)
(***************************************************************************)
Tabs == {1, 2}
Reqs == 1..MaxReqs

NoResp == [none |-> TRUE]

\* background.ts:156
NoActiveTab == [success |-> FALSE, error |-> "No active tab found"]

\* background.ts:132-135: the listener's catch, taken when handleMessage rejects
ListenerCatch(msg) == [error |-> msg]

RethrowTransportError(msg) == ListenerCatch(msg)

\* background.ts:160-162: chrome.tabs.sendMessage rejected
TransportError(msg) == [success |-> FALSE, error |-> msg]

\* content.ts:45
NoCommand == [success |-> FALSE, error |-> "No command provided"]

\* Without the try/catch the listener's own catch answers (content.ts:43)
CommandFailedUncaught(id, error) == [success |-> FALSE, error |-> error]

\* content.ts:26-28: the catch of executeBTCPCommand
CommandFailed(id, error) == [id |-> id, success |-> FALSE, error |-> error]

\* Response of agent.execute(command) (vite.config.extension.ts:158-163, 177):
\* the agent answers the Command it was given
AgentResponse(id, ok) ==
    IF ok THEN [id |-> id, success |-> TRUE]
    ELSE [id |-> id, success |-> FALSE, error |-> "Element not found"]

IdleReq ==
    [pc |-> "idle", tabId |-> 0, hasCmd |-> TRUE, target |-> 0, resp |-> NoResp,
     nresp |-> 0, why |-> "", launched |-> "na", issuedActive |-> 0]

BridgeInit ==
    /\ activeTab \in Tabs \cup {0}
    /\ tabState = [t \in Tabs |-> "noscript"]
    /\ browserAgent = [t \in Tabs |-> FALSE]
    /\ launchDone = [t \in Tabs |-> FALSE]
    /\ launchFailed = [t \in Tabs |-> FALSE]
    /\ req = [r \in Reqs |-> IdleReq]

\* The sender's sendResponse callback runs with `resp` (background.ts:131); the
\* handler has returned and its locals are gone
Settled(q, resp) ==
    [q EXCEPT !.pc = "done", !.resp = resp, !.nresp = q.nresp + 1,
              !.tabId = 0, !.target = 0, !.launched = "na", !.issuedActive = 0]

\* background.ts:158-159: chrome.tabs.sendMessage(targetTabId, message); the
\* promise rejects when the tab has no listener. `tabId` is not read again.
Dispatched(q, t) ==
    IF tabState[t] = "ready"
    THEN [q EXCEPT !.pc = "delivering", !.target = t, !.tabId = 0]
    ELSE [q EXCEPT !.pc = "rejected", !.target = t, !.tabId = 0,
                   !.why = "noreceiver", !.issuedActive = 0]

\* The tab that was active when the message was sent (kept until the content
\* script has taken the message)
ResolvedAtCall(q) == q.issuedActive

\* background.ts:152-153: [activeTab] = await chrome.tabs.query({ active: true, ... });
\* the tab that is active when the query resolves
ResolvedTab(q) == activeTab

\* background.ts:129-131, 144-154: the listener starts handleMessage, which runs
\* to its first await
handleMessage(r, tab, hasCmd) ==
    /\ req[r].pc = "idle"
    /\ \A p \in Reqs : p < r => req[p].pc # "idle"
    /\ LET q == [req[r] EXCEPT !.tabId = tab, !.hasCmd = hasCmd,
                               !.issuedActive = IF tab = 0 THEN activeTab ELSE 0]
       IN  req' = [req EXCEPT ![r] =
                     IF tab # 0 THEN Dispatched(q, tab) ELSE [q EXCEPT !.pc = "query"]]
    /\ UNCHANGED <<launchFailed, activeTab, tabState, browserAgent, launchDone, snapVars, pluginVars,
                 toolVars, engineVars, failVars, cbVars, fileVars>>

\* background.ts:152-159: chrome.tabs.query resolved
QueryDone(r) ==
    /\ req[r].pc = "query"
    /\ req' = [req EXCEPT ![r] =
                  IF ResolvedTab(req[r]) = 0
                  THEN Settled([req[r] EXCEPT !.why = "notab"], NoActiveTab)
                  ELSE Dispatched(req[r], ResolvedTab(req[r]))]
    /\ UNCHANGED <<launchFailed, activeTab, tabState, browserAgent, launchDone, snapVars, pluginVars,
                 toolVars, engineVars, failVars, cbVars, fileVars>>

\* background.ts:160-162: the catch around chrome.tabs.sendMessage
RouterCatch(r) ==
    /\ req[r].pc = "rejected"
    /\ req' = [req EXCEPT ![r] =
                  Settled(req[r], TransportError(
                      IF req[r].why = "closed"
                      THEN "The message port closed before a response was received."
                      ELSE "Could not establish connection. Receiving end does not exist."))]
    /\ UNCHANGED <<launchFailed, activeTab, tabState, browserAgent, launchDone, snapVars, pluginVars,
                 toolVars, engineVars, failVars, cbVars, fileVars>>

\* content.ts:36-48 and 19-25: the content listener gets the message and
\* executeBTCPCommand runs to its first await. `throws`: new BrowserAgent() throws.
executeBTCPCommand(r, throws) ==
    LET t == req[r].target IN
    /\ req[r].pc = "delivering"
    /\ tabState[t] = "ready"
    /\ IF ~req[r].hasCmd
       THEN /\ ~throws
            /\ req' = [req EXCEPT ![r] = Settled(req[r], NoCommand)]
            /\ UNCHANGED browserAgent
       ELSE IF ~browserAgent[t]
       THEN IF throws
            THEN /\ req' = [req EXCEPT ![r] =
                              Settled(req[r], CommandFailed(r, "Error: constructor failed"))]
                 /\ UNCHANGED browserAgent
            ELSE /\ browserAgent' = [browserAgent EXCEPT ![t] = TRUE]
                 /\ req' = [req EXCEPT ![r].pc = "launching", ![r].issuedActive = 0]
       ELSE /\ ~throws
            /\ req' = [req EXCEPT ![r].pc = "executing", ![r].issuedActive = 0,
                                  ![r].launched = IF launchDone[t] THEN "yes" ELSE "no"]
            /\ UNCHANGED browserAgent
    /\ UNCHANGED <<launchFailed, activeTab, tabState, launchDone, snapVars, pluginVars,
                 toolVars, engineVars, failVars, cbVars, fileVars>>

\* content.ts:23-25: launch() resolved, execute(command) is called
LaunchResolve(r) ==
    /\ req[r].pc = "launching"
    /\ launchDone' = [launchDone EXCEPT ![req[r].target] = TRUE]
    /\ req' = [req EXCEPT ![r].pc = "executing", ![r].launched = "yes"]
    /\ UNCHANGED <<launchFailed, activeTab, tabState, browserAgent, snapVars, pluginVars,
                 toolVars, engineVars, failVars, cbVars, fileVars>>

\* content.ts:23, 26-28: launch() rejected
LaunchReject(r) ==
    /\ req[r].pc = "launching"
    /\ launchFailed' = [launchFailed EXCEPT ![req[r].target] = TRUE]
    /\ req' = [req EXCEPT ![r] = Settled(req[r], CommandFailed(r, "Error: launch failed"))]
    /\ UNCHANGED <<activeTab, tabState, browserAgent, launchDone, snapVars, pluginVars,
                 toolVars, engineVars, failVars, cbVars, fileVars>>

\* content.ts:25, 42: execute() resolved with the agent's Response
ExecuteResolve(r, ok) ==
    /\ req[r].pc = "executing"
    /\ req' = [req EXCEPT ![r] = Settled(req[r], AgentResponse(r, ok))]
    /\ UNCHANGED <<launchFailed, activeTab, tabState, browserAgent, launchDone, snapVars, pluginVars,
                 toolVars, engineVars, failVars, cbVars, fileVars>>

\* content.ts:25-28: execute() rejected
ExecuteReject(r) ==
    /\ req[r].pc = "executing"
    /\ req' = [req EXCEPT ![r] = Settled(req[r], CommandFailed(r, "Error: execute failed"))]
    /\ UNCHANGED <<launchFailed, activeTab, tabState, browserAgent, launchDone, snapVars, pluginVars,
                 toolVars, engineVars, failVars, cbVars, fileVars>>

\* The agent's promise (launch or execute) never settles
AgentHang(r) ==
    /\ req[r].pc \in {"launching", "executing"}
    /\ req' = [req EXCEPT ![r].pc = "hung"]
    /\ UNCHANGED <<launchFailed, activeTab, tabState, browserAgent, launchDone, snapVars, pluginVars,
                 toolVars, engineVars, failVars, cbVars, fileVars>>

\* The page loads the content script: its listener is registered (content.ts:36)
LoadContentScript(t) ==
    /\ tabState[t] = "noscript"
    /\ tabState' = [tabState EXCEPT ![t] = "ready"]
    /\ UNCHANGED <<launchFailed, activeTab, browserAgent, launchDone, req, snapVars, pluginVars,
                 toolVars, engineVars, failVars, cbVars, fileVars>>

\* The tab is torn down: its content script and agent are gone, and every
\* chrome.tabs.sendMessage awaiting it rejects
CloseTab(t) ==
    /\ tabState[t] # "closed"
    /\ tabState' = [tabState EXCEPT ![t] = "closed"]
    /\ browserAgent' = [browserAgent EXCEPT ![t] = FALSE]
    /\ launchDone' = [launchDone EXCEPT ![t] = FALSE]
    /\ launchFailed' = [launchFailed EXCEPT ![t] = FALSE]
    /\ activeTab' = IF activeTab = t THEN 0 ELSE activeTab
    /\ req' = [r \in Reqs |->
                 IF req[r].target = t
                    /\ req[r].pc \in {"delivering", "launching", "executing", "hung"}
                 THEN [req[r] EXCEPT !.pc = "rejected", !.why = "closed",
                                     !.issuedActive = 0]
                 ELSE req[r]]
    /\ UNCHANGED <<snapVars, pluginVars,
                 toolVars, engineVars, failVars, cbVars, fileVars>>

\* The user focuses another tab
FocusTab(t) ==
    /\ t # activeTab
    /\ tabState[t] # "closed"
    /\ activeTab' = t
    /\ UNCHANGED <<launchFailed, tabState, browserAgent, launchDone, req, snapVars, pluginVars,
                 toolVars, engineVars, failVars, cbVars, fileVars>>

\* Steps of the router, the content script and the agent
BridgeProgress ==
    \E r \in Reqs :
        \/ QueryDone(r)
        \/ RouterCatch(r)
        \/ \E throws \in BOOLEAN : executeBTCPCommand(r, throws)
        \/ LaunchResolve(r)
        \/ LaunchReject(r)
        \/ \E ok \in BOOLEAN : ExecuteResolve(r, ok)
        \/ ExecuteReject(r)
        \/ AgentHang(r)

\* Steps of the senders, the user and the pages
BridgeEnvironment ==
    \/ \E r \in Reqs, tab \in Tabs \cup {0}, hasCmd \in BOOLEAN : handleMessage(r, tab, hasCmd)
    \/ \E t \in Tabs : LoadContentScript(t)
    \/ \E t \in Tabs : CloseTab(t)
    \/ \E t \in Tabs : FocusTab(t)

(***************************************************************************)
(* Plugin session: getAgent, browser_launch, browser_close and a tool      *)
(* that dispatches a Command (part_000)                                    *)
(***************************************************************************)
Calls == 1..MaxCalls
ToolNames == {"browser_navigate", "browser_launch", "browser_close"}

IdleCall ==
    [tool |-> "", pc |-> "idle", result |-> "pending", startEpoch |-> 0,
     launched |-> "na", atClose |-> FALSE, response |-> "none"]

PluginInit ==
    /\ agent \in {"null", "provided"}
    /\ agentLaunched = FALSE
    /\ call = [k \in Calls |-> IdleCall]
    /\ launchCalls = 0
    /\ closeCount = 0
    /\ launchEpoch = -1
    /\ contextAgent = "none"

FlagKeptAfterClose(flag) == flag

\* part_000:128  agentLaunched = false
FlagAfterClose(flag) == FALSE

\* part_000:87  if (!agentLaunched)
MustLaunch == ~agentLaunched

\* The tool's body once getAgent() has returned the agent (the continuation of
\* `await getAgent()`, taken in the same step): browser_navigate calls
\* agent.execute (part_000:142-147), browser_launch returns (part_000:116-117)
AfterGetAgent(c, epoch) ==
    IF c.tool = "browser_navigate"
    THEN [c EXCEPT !.pc = "await_execute",
                   !.launched = IF epoch >= c.startEpoch THEN "yes" ELSE "no"]
    ELSE [c EXCEPT !.pc = "done", !.result = "ok"]

\* executeWithCallbacks (part_000:95-98) starts the tool, which runs to its first
\* pending await: getAgent (part_000:83-92) or agent.close (part_000:126-127)
executeWithCallbacks(k, tool) ==
    /\ call[k].pc = "idle"
    /\ \A j \in Calls : j < k => call[j].pc # "idle"
    /\ LET c == [call[k] EXCEPT !.tool = tool, !.startEpoch = closeCount] IN
       IF tool = "browser_close"
       THEN /\ call' = [call EXCEPT ![k] =
                          IF agent # "null" THEN [c EXCEPT !.pc = "await_close"]
                          ELSE [c EXCEPT !.pc = "done", !.result = "ok"]]
            /\ UNCHANGED <<agent, launchCalls>>
       ELSE /\ agent' = IF agent = "null" THEN "own" ELSE agent
            /\ IF MustLaunch
               THEN /\ call' = [call EXCEPT ![k] = [c EXCEPT !.pc = "await_launch"]]
                    /\ launchCalls' = launchCalls + 1
               ELSE /\ call' = [call EXCEPT ![k] = AfterGetAgent(c, launchEpoch)]
                    /\ UNCHANGED launchCalls
    /\ UNCHANGED <<agentLaunched, closeCount, launchEpoch, contextAgent, snapVars, bridgeVars,
                 toolVars, engineVars, failVars, cbVars, fileVars>>

\* part_000:88-91: launch() resolved; the flag is set and the tool goes on
LaunchResolved(k) ==
    /\ call[k].pc = "await_launch"
    /\ agentLaunched' = TRUE
    /\ launchEpoch' = closeCount
    /\ call' = [call EXCEPT ![k] = AfterGetAgent(call[k], closeCount)]
    /\ UNCHANGED <<agent, launchCalls, closeCount, contextAgent, snapVars, bridgeVars,
                 toolVars, engineVars, failVars, cbVars, fileVars>>

\* part_000:88, 101-103: launch() rejected; the tool call fails (a failed launch
\* is not counted as a launch of the session)
LaunchRejected(k) ==
    /\ call[k].pc = "await_launch"
    /\ call' = [call EXCEPT ![k].pc = "done", ![k].result = "thrown"]
    /\ launchCalls' = IF launchCalls > 0 THEN launchCalls - 1 ELSE 0
    /\ UNCHANGED <<agent, agentLaunched, closeCount, launchEpoch, contextAgent, snapVars, bridgeVars,
                 toolVars, engineVars, failVars, cbVars, fileVars>>

\* part_000:143-148: execute() resolved with a Response (success `ok`), which
\* the tool does not read
CommandResolved(k, ok) ==
    /\ call[k].pc = "await_execute"
    /\ call' = [call EXCEPT ![k].pc = "done", ![k].result = "ok",
                            ![k].response = IF ok THEN "ok" ELSE "failed"]
    /\ UNCHANGED <<agent, agentLaunched, launchCalls, closeCount, launchEpoch, contextAgent, snapVars, bridgeVars,
                 toolVars, engineVars, failVars, cbVars, fileVars>>

\* part_000:143, 101-103: execute() rejected
CommandRejected(k) ==
    /\ call[k].pc = "await_execute"
    /\ call' = [call EXCEPT ![k].pc = "done", ![k].result = "thrown"]
    /\ UNCHANGED <<agent, agentLaunched, launchCalls, closeCount, launchEpoch, contextAgent, snapVars, bridgeVars,
                 toolVars, engineVars, failVars, cbVars, fileVars>>

\* A close that also lets go of the agent
AgentDroppedAfterClose(a) == "null"

\* part_000:126-129: close() is called on `agent`, which is not reassigned
AgentAfterClose(a) == a

\* part_000:127-130: agent.close() resolved
CloseResolved(k) ==
    /\ call[k].pc = "await_close"
    /\ agent' = AgentAfterClose(agent)
    /\ agentLaunched' = FlagAfterClose(agentLaunched)
    /\ closeCount' = closeCount + 1
    /\ launchCalls' = 0
    /\ call' = [j \in Calls |->
                  IF j = k THEN [call[j] EXCEPT !.pc = "done", !.result = "ok"]
                  ELSE IF call[j].pc = "await_execute"
                  THEN [call[j] EXCEPT !.atClose = TRUE]
                  ELSE call[j]]
    /\ UNCHANGED <<launchEpoch, contextAgent, snapVars, bridgeVars,
                 toolVars, engineVars, failVars, cbVars, fileVars>>

\* part_000:127, 101-103: agent.close() rejected
CloseRejected(k) ==
    /\ call[k].pc = "await_close"
    /\ call' = [call EXCEPT ![k].pc = "done", ![k].result = "thrown"]
    /\ UNCHANGED <<agent, agentLaunched, launchCalls, closeCount, launchEpoch, contextAgent, snapVars, bridgeVars,
                 toolVars, engineVars, failVars, cbVars, fileVars>>

\* index.ts:699-702: configureContext stores the closure's `agent`, as it is at
\* that moment, in the context of the request that starts
configureContext ==
    /\ contextAgent = "none"
    /\ contextAgent' = IF agent = "null" THEN "null" ELSE agent
    /\ UNCHANGED <<agent, agentLaunched, call, launchCalls, closeCount, launchEpoch,
                   snapVars, bridgeVars, toolVars, engineVars, failVars, cbVars, fileVars>>

\* index.ts:725-734: onRequestEnd clears the manager's tracked requests when
\* tracking is on; the request has settled and its context is discarded
onRequestEnd ==
    /\ contextAgent # "none"
    /\ contextAgent' = "none"
    /\ UNCHANGED <<agent, agentLaunched, call, launchCalls, closeCount, launchEpoch,
                   snapVars, bridgeVars, toolVars, engineVars, failVars, cbVars, fileVars>>

PluginNext ==
    \/ \E k \in Calls, tool \in ToolNames : executeWithCallbacks(k, tool)
    \/ \E k \in Calls : LaunchResolved(k)
    \/ \E k \in Calls : LaunchRejected(k)
    \/ \E k \in Calls, ok \in BOOLEAN : CommandResolved(k, ok)
    \/ \E k \in Calls : CommandRejected(k)
    \/ \E k \in Calls : CloseResolved(k)
    \/ \E k \in Calls : CloseRejected(k)
    \/ configureContext
    \/ onRequestEnd

(***************************************************************************)
(* Tool selection: TOOL_PRESETS, filterTools and transformParams           *)
(*                                                                         *)
(* A JavaScript object with string keys is a sequence of entries           *)
(* [name, tool] without repeated names, in insertion order.                *)
(***************************************************************************)
\* constants.ts:17-26
PresetMinimal ==
    <<"browser_snapshot", "browser_url", "browser_title", "browser_get_text",
      "browser_get_attribute", "browser_is_visible", "browser_count",
      "browser_describe">>

\* constants.ts:32-67
PresetStandard ==
    <<"browser_snapshot", "browser_url", "browser_title", "browser_get_text",
      "browser_get_attribute", "browser_is_visible", "browser_count",
      "browser_describe", "browser_navigate", "browser_back", "browser_forward",
      "browser_reload", "browser_click", "browser_type", "browser_fill",
      "browser_press", "browser_hover", "browser_scroll", "browser_clear",
      "browser_check", "browser_select", "browser_get_by_role",
      "browser_get_by_text", "browser_get_by_label", "browser_wait",
      "browser_scroll_into_view", "browser_screenshot", "browser_highlight">>

\* constants.ts:73-112
PresetFull ==
    <<"browser_snapshot", "browser_url", "browser_title", "browser_get_text",
      "browser_get_attribute", "browser_is_visible", "browser_count",
      "browser_describe", "browser_navigate", "browser_back", "browser_forward",
      "browser_reload", "browser_click", "browser_type", "browser_fill",
      "browser_press", "browser_hover", "browser_scroll", "browser_clear",
      "browser_check", "browser_select", "browser_get_by_role",
      "browser_get_by_text", "browser_get_by_label", "browser_wait",
      "browser_scroll_into_view", "browser_screenshot", "browser_highlight",
      "browser_evaluate", "browser_frame", "browser_mainframe", "browser_uncheck",
      "browser_get_by_placeholder", "browser_is_enabled", "browser_wait_for_url",
      "browser_console">>

\* A preset table whose minimal list names a tool that standard lacks
TOOL_PRESETS_Widened ==
    [minimal |-> Append(PresetMinimal, "browser_evaluate"),
     standard |-> PresetStandard,
     full |-> PresetFull]

\* constants.ts:12-113
TOOL_PRESETS ==
    [minimal |-> PresetMinimal, standard |-> PresetStandard, full |-> PresetFull]

\* The tool the plugin defines under a name (index.ts:100-683, createTool)
BtcpTool == "btcp"

\* index.ts:100-684: the names of the table createBrowserTools() builds, in the
\* order of the object literal
BrowserToolOrder ==
    <<"browser_navigate", "browser_back", "browser_forward", "browser_reload",
      "browser_url", "browser_title", "browser_snapshot", "browser_get_text",
      "browser_get_attribute", "browser_is_visible", "browser_is_enabled",
      "browser_count", "browser_get_by_role", "browser_get_by_text",
      "browser_get_by_label", "browser_get_by_placeholder", "browser_click",
      "browser_type", "browser_fill", "browser_clear", "browser_press",
      "browser_hover", "browser_check", "browser_uncheck", "browser_select",
      "browser_scroll", "browser_scroll_into_view", "browser_wait",
      "browser_wait_for_url", "browser_screenshot", "browser_highlight",
      "browser_frame", "browser_mainframe", "browser_evaluate", "browser_console",
      "browser_describe">>

createBrowserTools ==
    [i \in 1..Len(BrowserToolOrder) |-> [name |-> BrowserToolOrder[i], tool |-> BtcpTool]]

\* Array.prototype.includes
Includes(list, x) == \E i \in 1..Len(list) : list[i] = x

\* The keys of an object
Names(obj) == {obj[i].name : i \in 1..Len(obj)}

\* obj[name] for a key the object has
ValueOf(obj, name) == obj[CHOOSE i \in 1..Len(obj) : obj[i].name = name].tool

\* Object.fromEntries(entries): a key stands where it first occurs and holds
\* the value of its last occurrence
ObjectFromEntries(entries) ==
    LET n == Len(entries)
        isFirst(i) == \A j \in 1..(i - 1) : entries[j].name # entries[i].name
        firsts == SelectSeq([i \in 1..n |-> i], isFirst)
        last(name) == CHOOSE j \in 1..n :
                          /\ entries[j].name = name
                          /\ \A k \in (j + 1)..n : entries[k].name # name
    IN  [k \in 1..Len(firsts) |-> entries[last(entries[firsts[k]].name)]]

\* `params.tools = selectedTools`: the tools already present are dropped
ReplaceTools(existingTools, selectedTools) == ObjectFromEntries(selectedTools)

\* index.ts:711-712: { ...existingTools, ...selectedTools } assigns the entries
\* of the one, then of the other; absent params.tools count as the empty object
SpreadTools(existingTools, selectedTools) ==
    ObjectFromEntries(existingTools \o selectedTools)

\* The entries in the order of the list of names, not of the table
RECURSIVE PickInListOrder(_, _)
PickInListOrder(entries, names) ==
    IF names = <<>> THEN <<>>
    ELSE LET isHead(e) == e.name = Head(names)
         IN  SelectSeq(entries, isHead) \o PickInListOrder(entries, Tail(names))

\* index.ts:689, 692: Object.entries(allTools).filter(([name]) => names.includes(name))
FilterEntries(entries, names) ==
    LET keep(e) == Includes(names, e.name)
    IN  SelectSeq(entries, keep)

\* Property names every object literal inherits from Object.prototype: looked
\* up on TOOL_PRESETS they yield a function or an object, not undefined
ObjectPrototypeKeys ==
    {"constructor", "toString", "valueOf", "hasOwnProperty", "__proto__"}

\* The fallback that also admits the tools of `full`
PresetFallbackFull == TOOL_PRESETS.full

\* index.ts:691: `|| TOOL_PRESETS.standard`
PresetFallback == TOOL_PRESETS.standard

\* index.ts:691: TOOL_PRESETS[toolset] || TOOL_PRESETS.standard
PresetLookup(name) ==
    IF name \in DOMAIN TOOL_PRESETS
    THEN [isArray |-> TRUE, names |-> TOOL_PRESETS[name]]
    ELSE IF name \in ObjectPrototypeKeys
    THEN [isArray |-> FALSE, names |-> <<>>]
    ELSE [isArray |-> TRUE, names |-> PresetFallback]

\* A toolset that is a preset name / an explicit list (types.ts:87)
PresetName(name) == [isArray |-> FALSE, name |-> name, names |-> <<>>]
NameList(names) == [isArray |-> TRUE, name |-> "", names |-> names]

\* index.ts:687-693. `threw`: preset.includes is not a function (TypeError)
filterTools(ts, table) ==
    IF ts.isArray
    THEN [threw |-> FALSE, tools |-> ObjectFromEntries(FilterEntries(table, ts.names))]
    ELSE LET preset == PresetLookup(ts.name) IN
         IF preset.isArray
         THEN [threw |-> FALSE,
               tools |-> ObjectFromEntries(FilterEntries(table, preset.names))]
         ELSE [threw |-> TRUE, tools |-> <<>>]

\* constants.ts:130-148; the text names browser_snapshot
BROWSER_SYSTEM_PROMPT ==
    "You have access to browser automation tools ... Call browser_snapshot FIRST ..."

\* A system prompt is the sequence of its paragraphs, joined by "\n\n"; the
\* empty sequence is the absent or empty prompt

\* A plugin that does not look for its hint in the prompt
IncludesNothing(system) == FALSE

\* index.ts:716: currentSystem?.includes('browser_snapshot')
IncludesBrowserSnapshot(system) ==
    \E i \in 1..Len(system) :
        system[i] \in {"Start with browser_snapshot.", BROWSER_SYSTEM_PROMPT}

\* index.ts:714-721
InjectedSystem(currentSystem) ==
    IF ~IncludesBrowserSnapshot(currentSystem)
    THEN IF currentSystem # <<>>
         THEN Append(currentSystem, BROWSER_SYSTEM_PROMPT)
         ELSE <<BROWSER_SYSTEM_PROMPT>>
    ELSE currentSystem

\* Sequences over S without a repeated element, at most n long
DistinctSeqs(S, n) ==
    {s \in SeqsUpTo(S, n) : \A i, j \in 1..Len(s) : s[i] = s[j] => i = j}

\* Names an explicit list is drawn from: a tool of standard, one of full only,
\* and a name the plugin does not define
ListNames == {"browser_click", "browser_evaluate", "no_such_tool"}

\* Preset names a configuration may carry: the three presets, names no preset
\* has, and a name of Object.prototype
SelectorStrings == {"minimal", "standard", "full", "", "custom", "constructor"}

Toolsets ==
    {PresetName(s) : s \in SelectorStrings}
        \cup {NameList(l) : l \in SeqsUpTo(ListNames, MaxListLen)}

\* Tools the host or an earlier plugin put in params.tools: one with a name
\* of its own and one under a browser tool's name
HostTools ==
    {[name |-> "web_search", tool |-> "host"], [name |-> "browser_click", tool |-> "host"]}

\* Entries of the tables filterTools is tried on: a tool of minimal, one that
\* standard adds, one that full adds
TableTools ==
    {[name |-> n, tool |-> "t"] :
        n \in {"browser_snapshot", "browser_click", "browser_evaluate"}}

Systems == SeqsUpTo({"You are a helpful assistant.", "Start with browser_snapshot."}, 1)

NotFiltered == [called |-> FALSE, threw |-> FALSE, tools |-> <<>>]

ToolsInit ==
    /\ enabled \in BOOLEAN
    /\ toolset \in Toolsets
    /\ injectSystemPrompt \in BOOLEAN
    /\ params \in [tools : DistinctSeqs(HostTools, Cardinality(HostTools)),
                   system : Systems]
    /\ paramsBefore = params
    /\ tpPc = "idle"
    /\ allTools \in {createBrowserTools} \cup DistinctSeqs(TableTools, MaxTable)
    /\ filtered = NotFiltered

\* filterTools(allTools) is evaluated (index.ts:687-693)
CallFilterTools ==
    /\ ~filtered.called
    /\ filtered' = [called |-> TRUE] @@ filterTools(toolset, allTools)
    /\ UNCHANGED <<enabled, toolset, injectSystemPrompt, params, paramsBefore, tpPc,
                   allTools, snapVars, bridgeVars, pluginVars, engineVars, failVars, cbVars, fileVars>>

\* A plugin that ignores its `enabled` setting
DisabledNever == FALSE

\* index.ts:705: if (!enabled) return params
Disabled == ~enabled

\* index.ts:704-723: the plugin's transformParams; it assigns to the params it
\* is given and returns them
transformParams ==
    /\ paramsBefore' = params
    /\ IF Disabled
       THEN /\ params' = params
            /\ tpPc' = "returned"
       ELSE LET selectedTools == filterTools(toolset, createBrowserTools) IN
            IF selectedTools.threw
            THEN /\ params' = params
                 /\ tpPc' = "threw"
            ELSE /\ params' =
                      [tools |-> SpreadTools(params.tools, selectedTools.tools),
                       system |-> IF injectSystemPrompt
                                  THEN InjectedSystem(params.system)
                                  ELSE params.system]
                 /\ tpPc' = "returned"
    /\ UNCHANGED <<enabled, toolset, injectSystemPrompt, allTools, filtered,
                   snapVars, bridgeVars, pluginVars, engineVars, failVars, cbVars, fileVars>>

ToolsNext == CallFilterTools \/ transformParams

(***************************************************************************)
(* Plugin Engine (request pipeline): run(params, plugins)                  *)
(*                                                                         *)
(* One run: configureContext on every plugin, transformParams folded over  *)
(* the plugins, the provider call, transformResult folded over the         *)
(* plugins.  Each hook of a plugin is a step that begins and, later, ends  *)
(* by returning or throwing.                                               *)
(***************************************************************************)
\* A plugin registered without a tag where the plugin asks for `pre`
BtcpEnforceNormal == "normal"

\* index.ts:695-697: name: 'btcp-browser', enforce: 'pre'
BtcpEnforce == "pre"

\* index.ts:695-697 and 704: the btcp-browser plugin; its transformParams
\* throws when filterTools does
BtcpBrowserPlugins ==
    {[name |-> "btcp-browser", enforce |-> BtcpEnforce, throws |-> t] :
        t \in {"none", "transformParams"}}

\* Plugins of other authors: any tag, and a hook that may throw
OtherPlugins ==
    {[name |-> "other", enforce |-> e, throws |-> t] :
        e \in {"pre", "normal", "post"},
        t \in {"none", "transformParams", "transformResult"}}

\* The registered lists: at most one btcp-browser plugin
PluginLists ==
    {l \in SeqsUpTo(BtcpBrowserPlugins \cup OtherPlugins, MaxPlugins) :
        /\ l # <<>>
        /\ \A i, j \in 1..Len(l) :
              l[i].name = "btcp-browser" /\ l[j].name = "btcp-browser" => i = j}

\* The registration indices of the plugins carrying one tag, in registration order
RECURSIVE Tagged(_, _, _)
Tagged(l, tag, from) ==
    IF from > Len(l) THEN <<>>
    ELSE (IF l[from].enforce = tag THEN <<from>> ELSE <<>>) \o Tagged(l, tag, from + 1)

\* Pipeline order: `pre`, then normal, then `post`
PipelineOrder(l) == Tagged(l, "pre", 1) \o Tagged(l, "normal", 1) \o Tagged(l, "post", 1)

SequentialStages == {"configureContext", "transformParams", "transformResult"}

\* A throw that the engine swallows
SwallowedOutcome(p, stage) == "returns"

\* How a plugin's hook ends
StageOutcome(p, stage) == IF p.throws = stage THEN "throws" ELSE "returns"

EngineInit ==
    /\ plugins \in PluginLists
    /\ enginePc = "configureContext"
    /\ cursor = 1
    /\ inStage = {}
    /\ stageLog = <<>>
    /\ providerCalls = 0

\* The engine calls the current stage's hook of the next plugin in pipeline order
BeginStage ==
    /\ enginePc \in SequentialStages
    /\ inStage = {}
    /\ cursor <= Len(plugins)
    /\ LET p == PipelineOrder(plugins)[cursor] IN
       /\ inStage' = {p}
       /\ stageLog' = Append(stageLog, [stage |-> enginePc, plugin |-> p])
    /\ UNCHANGED <<plugins, enginePc, cursor, providerCalls,
                   snapVars, bridgeVars, pluginVars, toolVars, failVars, cbVars, fileVars>>

\* The hook returns, and the next plugin is due; or it throws, and the run is
\* aborted
EndStage ==
    /\ inStage # {}
    /\ inStage' = {}
    /\ LET p == CHOOSE i \in inStage : TRUE IN
       IF StageOutcome(plugins[p], enginePc) = "throws"
       THEN /\ enginePc' = "failed"
            /\ UNCHANGED cursor
       ELSE /\ cursor' = cursor + 1
            /\ UNCHANGED enginePc
    /\ UNCHANGED <<plugins, stageLog, providerCalls,
                   snapVars, bridgeVars, pluginVars, toolVars, failVars, cbVars, fileVars>>

\* Every plugin has run the current stage: the next stage starts, the provider
\* call being the one after transformParams
NextStage ==
    /\ enginePc \in SequentialStages
    /\ inStage = {}
    /\ cursor > Len(plugins)
    /\ cursor' = 1
    /\ enginePc' = CASE enginePc = "configureContext" -> "transformParams"
                     [] enginePc = "transformParams" -> "provider"
                     [] enginePc = "transformResult" -> "done"
    /\ providerCalls' = IF enginePc = "transformParams"
                        THEN providerCalls + 1 ELSE providerCalls
    /\ UNCHANGED <<plugins, inStage, stageLog,
                   snapVars, bridgeVars, pluginVars, toolVars, failVars, cbVars, fileVars>>

\* The provider call returns, or fails
ProviderSettles(ok) ==
    /\ enginePc = "provider"
    /\ enginePc' = IF ok THEN "transformResult" ELSE "failed"
    /\ UNCHANGED <<plugins, cursor, inStage, stageLog, providerCalls,
                   snapVars, bridgeVars, pluginVars, toolVars, failVars, cbVars, fileVars>>

EngineNext ==
    \/ BeginStage
    \/ EndStage
    \/ NextStage
    \/ \E ok \in BOOLEAN : ProviderSettles(ok)

(***************************************************************************)
(* Failure Responses: what each catch site of the bridge makes of the      *)
(* value it caught                                                         *)
(***************************************************************************)
\* The texts a thrown value carries: strings over two letters, the empty one
\* included
RECURSIVE Texts(_)
Texts(n) ==
    IF n = 0 THEN {""}
    ELSE Texts(n - 1) \cup {t \o c : t \in Texts(n - 1), c \in {"x", "y"}}

\* `throw new Error(message)` (isError) or `throw message`
ThrownValues == [isError : BOOLEAN, message : Texts(MaxMessageLen)]

\* String(error): Error.prototype.toString for an Error, the string itself
\* for a string
JsString(e) ==
    IF e.isError
    THEN IF e.message = "" THEN "Error" ELSE "Error: " \o e.message
    ELSE e.message

\* content.ts:26-28: error: String(error)
ContentScriptError(e) == JsString(e)

\* part_001:49-53: error instanceof Error ? error.message : String(error)
EmbeddedScriptError(e) == IF e.isError THEN e.message ELSE JsString(e)

\* background.ts:160-162: error instanceof Error ? error.message : 'Content script not available'
RouterError(e) == IF e.isError THEN e.message ELSE "Content script not available"

\* The places a failure Response is made: three catch clauses, and the two
\* fixed refusals (background.ts:156, content.ts:45)
FailureSites == {"content.ts", "part_001", "background.ts", "no tab", "no command"}

\* The failure Response a catch site hands to the sender
FailureResponse(site, id, e) ==
    CASE site = "content.ts" -> CommandFailed(id, ContentScriptError(e))
      [] site = "part_001" -> CommandFailed(id, EmbeddedScriptError(e))
      [] site = "background.ts" -> TransportError(RouterError(e))
      [] site = "no tab" -> NoActiveTab
      [] site = "no command" -> NoCommand

FailureInit ==
    /\ thrown \in ThrownValues
    /\ producer = ""
    /\ failure = NoResp

\* A promise awaited inside the site's try block rejects with `thrown`, or the
\* site refuses the message
Catch(site, id) ==
    /\ producer = ""
    /\ producer' = site
    /\ failure' = FailureResponse(site, id, thrown)
    /\ UNCHANGED <<thrown, snapVars, bridgeVars, pluginVars, toolVars, engineVars, cbVars, fileVars>>

\* The sender issues its next command: the Response is consumed
NextCommand ==
    /\ producer # ""
    /\ producer' = ""
    /\ failure' = NoResp
    /\ thrown' \in ThrownValues
    /\ UNCHANGED <<snapVars, bridgeVars, pluginVars, toolVars, engineVars, cbVars, fileVars>>

FailureNext ==
    \/ \E site \in FailureSites, id \in Reqs : Catch(site, id)
    \/ NextCommand

(***************************************************************************)
(* executeWithCallbacks (index.ts:85-96): the callbacks around one tool    *)
(* execution                                                               *)
(***************************************************************************)
\* What a configured callback does when it is invoked; "absent" is a callback
\* the config leaves out, which `?.` skips
CallbackBehaviours == {"absent", "returns", "throws"}

CallbackConfigs ==
    [onToolCall : CallbackBehaviours, onToolResult : CallbackBehaviours,
     onError : CallbackBehaviours]

CallbackTools == {"browser_navigate", "browser_click"}

\* `cb?.(toolName, payload)`: the log after the call
Invoke(log, cb, tool) ==
    IF callbacks[cb] = "absent" THEN log ELSE Append(log, [cb |-> cb, tool |-> tool])

Throws(cb) == callbacks[cb] = "throws"

CallbacksIdle ==
    /\ callbacks = [onToolCall |-> "absent", onToolResult |-> "absent",
                    onError |-> "absent"]
    /\ cbTool = ""
    /\ cbPc = "idle"
    /\ cbLog = <<>>
    /\ cbOperation = "none"
    /\ cbError = "none"

CallbacksInit ==
    /\ callbacks \in CallbackConfigs
    /\ cbTool = ""
    /\ cbPc = "idle"
    /\ cbLog = <<>>
    /\ cbOperation = "none"
    /\ cbError = "none"

\* index.ts:90-91: onToolCall runs outside the try block, then the executor is
\* started and awaited
BeginExecution(tool) ==
    /\ cbPc = "idle"
    /\ cbTool' = tool
    /\ cbLog' = Invoke(<<>>, "onToolCall", tool)
    /\ cbOperation' = "none"
    /\ IF Throws("onToolCall")
         THEN cbPc' = "threw" /\ cbError' = "onToolCall"
         ELSE cbPc' = "executing" /\ cbError' = "none"
    /\ UNCHANGED <<callbacks, snapVars, bridgeVars, pluginVars, toolVars, engineVars,
                   failVars, fileVars>>

\* The error the catch clause of index.ts:93-96 lets out: onError's own error
\* when it throws, the caught one otherwise
Rethrown(caught) == IF Throws("onError") THEN "onError" ELSE caught

\* index.ts:91-96: the executor settles. onToolResult is called inside the try
\* block, so its error is caught like the executor's
ExecutorSettles(ok) ==
    /\ cbPc = "executing"
    /\ cbOperation' = IF ok THEN "returned" ELSE "threw"
    /\ LET afterResult == IF ok THEN Invoke(cbLog, "onToolResult", cbTool) ELSE cbLog
           caught == IF ~ok THEN "operation"
                     ELSE IF Throws("onToolResult") THEN "onToolResult" ELSE "none"
       IN  IF caught = "none"
             THEN /\ cbLog' = afterResult
                  /\ cbPc' = "returned"
                  /\ cbError' = "none"
             ELSE /\ cbLog' = Invoke(afterResult, "onError", cbTool)
                  /\ cbError' = Rethrown(caught)
                  /\ cbPc' = IF Rethrown(caught) = "none" THEN "returned" ELSE "threw"
    /\ UNCHANGED <<callbacks, cbTool, snapVars, bridgeVars, pluginVars, toolVars,
                   engineVars, failVars, fileVars>>

\* The caller has its answer; the next tool execution may start
ExecutionConsumed ==
    /\ cbPc \in {"returned", "threw"}
    /\ cbPc' = "idle"
    /\ cbTool' = ""
    /\ cbLog' = <<>>
    /\ cbOperation' = "none"
    /\ cbError' = "none"
    /\ UNCHANGED <<callbacks, snapVars, bridgeVars, pluginVars, toolVars, engineVars,
                   failVars, fileVars>>

CallbacksNext ==
    \/ \E tool \in CallbackTools : BeginExecution(tool)
    \/ \E ok \in BOOLEAN : ExecutorSettles(ok)
    \/ ExecutionConsumed

(***************************************************************************)
(* BrowserFileSystemService (part_006): copy, move and rename over the     *)
(* File System Access API                                                  *)
(***************************************************************************)
\* A path is a sequence of characters: the separator and one name character
PathChars == {"/", "a"}

Paths == SeqsUpTo(PathChars, MaxPathLen)

FileContents == {"x", "y"}

\* path.split('/'): the pieces between separators, empty ones included
RECURSIVE SplitSlash(_)
SplitSlash(path) ==
    IF path = <<>> THEN << <<>> >>
    ELSE LET rest == SplitSlash(Tail(path))
         IN  IF Head(path) = "/" THEN << <<>> >> \o rest
             ELSE << <<Head(path)>> \o Head(rest) >> \o Tail(rest)

\* path.split('/').filter(Boolean)
Parts(path) == SelectSeq(SplitSlash(path), LAMBDA piece : piece # <<>>)

\* parts.join('/')
RECURSIVE JoinSlash(_)
JoinSlash(parts) ==
    IF parts = <<>> THEN <<>>
    ELSE IF Len(parts) = 1 THEN parts[1]
    ELSE parts[1] \o <<"/">> \o JoinSlash(Tail(parts))

\* parts.pop() leaves the parent's parts
Parent(parts) == SubSeq(parts, 1, Len(parts) - 1)

Dir == [kind |-> "directory", content |-> ""]

File(content) == [kind |-> "file", content |-> content]

IsFile(tree, parts) == parts \in DOMAIN tree /\ tree[parts].kind = "file"

\* The loop of getFileHandle / getDirectoryHandle (part_006:143-146, 163-167):
\* getDirectoryHandle(part, { create }) for each part in turn. It stops at a
\* part that names a file, or that is missing when create is false; with create
\* the missing directories before that part have been made.
WalkDirectories(tree, parts, create) ==
    LET Prefix(i) == SubSeq(parts, 1, i)
        Blocked(i) == \/ IsFile(tree, Prefix(i))
                      \/ ~create /\ Prefix(i) \notin DOMAIN tree
        blocked == {i \in 1..Len(parts) : Blocked(i)}
        stop == IF blocked = {} THEN Len(parts) + 1
                ELSE CHOOSE i \in blocked : \A j \in blocked : i <= j
        made == {Prefix(i) : i \in 1..(stop - 1)} \ DOMAIN tree
    IN  [ok |-> blocked = {},
         tree |-> [q \in made |-> Dir] @@ tree]

\* part_006:130-149
getFileHandle(tree, path, create) ==
    LET parts == Parts(path)
        walk == WalkDirectories(tree, Parent(parts), create)
    IN  IF ~rootHandle \/ parts = <<>> THEN [ok |-> FALSE, tree |-> tree]
        ELSE IF ~walk.ok THEN walk
        ELSE IF IsFile(walk.tree, parts) THEN walk
        ELSE IF parts \in DOMAIN walk.tree \/ ~create THEN [ok |-> FALSE, tree |-> walk.tree]
        ELSE [ok |-> TRUE, tree |-> (parts :> File("")) @@ walk.tree]

\* part_006:185-189
readFileBinary(tree, path) ==
    LET handle == getFileHandle(tree, path, FALSE)
    IN  [ok |-> handle.ok,
         content |-> IF handle.ok THEN tree[Parts(path)].content ELSE ""]

\* part_006:194-205, the writable stream accepting the content
writeFile(tree, path, content) ==
    LET handle == getFileHandle(tree, path, TRUE)
    IN  IF ~handle.ok THEN handle
        ELSE [ok |-> TRUE, tree |-> (Parts(path) :> File(content)) @@ handle.tree]

HasChildren(tree, parts) ==
    \E q \in DOMAIN tree : Len(q) > Len(parts) /\ SubSeq(q, 1, Len(parts)) = parts

\* part_006:303-319: removeEntry without { recursive } takes a file or an empty
\* directory away
deleteFile(tree, path) ==
    LET parts == Parts(path)
        parentPath == JoinSlash(Parent(parts))
        walk == WalkDirectories(tree, Parts(parentPath), FALSE)
    IN  IF ~rootHandle \/ parts = <<>> \/ ~walk.ok THEN [ok |-> FALSE, tree |-> tree]
        ELSE IF parts \notin DOMAIN tree \/ HasChildren(tree, parts)
               THEN [ok |-> FALSE, tree |-> tree]
        ELSE [ok |-> TRUE, tree |-> [q \in DOMAIN tree \ {parts} |-> tree[q]]]

\* part_006:345-348
copyFile(tree, sourcePath, destPath) ==
    LET read == readFileBinary(tree, sourcePath)
    IN  IF ~read.ok THEN [ok |-> FALSE, tree |-> tree]
        ELSE writeFile(tree, destPath, read.content)

\* part_006:353-356
moveFile(tree, sourcePath, destPath) ==
    LET copied == copyFile(tree, sourcePath, destPath)
    IN  IF ~copied.ok THEN copied ELSE deleteFile(copied.tree, sourcePath)

\* part_006:362-364
NewPath(path, newName) == JoinSlash(Append(Parent(Parts(path)), newName))

\* part_006:361-366
renameFile(tree, path, newName) == moveFile(tree, path, NewPath(path, newName))

\* What the source held before a call, "none" when it was not a file
ContentAt(tree, path) ==
    IF IsFile(tree, Parts(path)) THEN tree[Parts(path)].content ELSE "none"

\* The last move / rename and the ToolResult's success; for a successful one,
\* the entries its paths name and what the source held before it
NoFileOp == [tool |-> "", source |-> <<>>, destination |-> <<>>, before |-> "none",
             success |-> FALSE]

FilesIdle ==
    /\ rootHandle = FALSE
    /\ fs = <<>>
    /\ fileOp = NoFileOp

FilesInit == FilesIdle

\* part_006:55-87: the user picks a folder
requestFolderAccess ==
    /\ ~rootHandle
    /\ rootHandle' = TRUE
    /\ UNCHANGED <<fs, fileOp, snapVars, bridgeVars, pluginVars, toolVars, engineVars,
                   failVars, cbVars>>

\* browserFileTools.ts:42-49
browserWrite(path, content) ==
    /\ fs' = writeFile(fs, path, content).tree
    /\ UNCHANGED <<rootHandle, fileOp, snapVars, bridgeVars, pluginVars, toolVars,
                   engineVars, failVars, cbVars>>

\* browserFileTools.ts:212-219
browserMoveFile(source, destination) ==
    LET moved == moveFile(fs, source, destination)
    IN  /\ fs' = moved.tree
        /\ fileOp' = IF moved.ok
                        THEN [tool |-> "move_file", source |-> Parts(source),
                              destination |-> Parts(destination),
                              before |-> ContentAt(fs, source), success |-> TRUE]
                        ELSE [NoFileOp EXCEPT !.tool = "move_file"]
        /\ UNCHANGED <<rootHandle, snapVars, bridgeVars, pluginVars, toolVars,
                       engineVars, failVars, cbVars>>

\* browserFileTools.ts:224-231
browserRenameFile(path, newName) ==
    LET moved == renameFile(fs, path, newName)
    IN  /\ Len(NewPath(path, newName)) <= MaxPathLen
        /\ fs' = moved.tree
        /\ fileOp' = IF moved.ok
                        THEN [tool |-> "rename_file", source |-> Parts(path),
                              destination |-> Parts(NewPath(path, newName)),
                              before |-> ContentAt(fs, path), success |-> TRUE]
                        ELSE [NoFileOp EXCEPT !.tool = "rename_file"]
        /\ UNCHANGED <<rootHandle, snapVars, bridgeVars, pluginVars, toolVars,
                       engineVars, failVars, cbVars>>

FilesNext ==
    \/ requestFolderAccess
    \/ \E path \in Paths, content \in FileContents : browserWrite(path, content)
    \/ \E source \in Paths, destination \in Paths : browserMoveFile(source, destination)
    \/ \E path \in Paths, newName \in Paths : browserRenameFile(path, newName)

(***************************************************************************)
(* Specifications                                                          *)
(***************************************************************************)
SnapIdle ==
    /\ maxSnapshotSize = 0
    /\ snapPc = "idle"
    /\ snapIn = NoSnapshot
    /\ snapOut = NoSnapshot

BridgeIdle ==
    /\ activeTab = 0
    /\ tabState = [t \in Tabs |-> "noscript"]
    /\ browserAgent = [t \in Tabs |-> FALSE]
    /\ launchDone = [t \in Tabs |-> FALSE]
    /\ launchFailed = [t \in Tabs |-> FALSE]
    /\ req = [r \in Reqs |-> IdleReq]

PluginIdle ==
    /\ agent = "null"
    /\ agentLaunched = FALSE
    /\ call = [k \in Calls |-> IdleCall]
    /\ launchCalls = 0
    /\ closeCount = 0
    /\ launchEpoch = -1
    /\ contextAgent = "none"

ToolsIdle ==
    /\ enabled = TRUE
    /\ toolset = PresetName("standard")
    /\ injectSystemPrompt = TRUE
    /\ params = [tools |-> <<>>, system |-> <<>>]
    /\ paramsBefore = params
    /\ tpPc = "idle"
    /\ allTools = <<>>
    /\ filtered = NotFiltered

EngineIdle ==
    /\ plugins = <<>>
    /\ enginePc = "done"
    /\ cursor = 1
    /\ inStage = {}
    /\ stageLog = <<>>
    /\ providerCalls = 0

FailureIdle ==
    /\ thrown = [isError |-> FALSE, message |-> ""]
    /\ producer = ""
    /\ failure = NoResp

BridgeNext == BridgeProgress \/ BridgeEnvironment

OthersIdle == ToolsIdle /\ EngineIdle /\ FailureIdle /\ CallbacksIdle /\ FilesIdle

InitSnapshot == SnapInit /\ BridgeIdle /\ PluginIdle /\ OthersIdle
InitBridge == SnapIdle /\ BridgeInit /\ PluginIdle /\ OthersIdle
InitPlugin == SnapIdle /\ BridgeIdle /\ PluginInit /\ OthersIdle
InitTools ==
    /\ SnapIdle /\ BridgeIdle /\ PluginIdle /\ ToolsInit /\ EngineIdle /\ FailureIdle
    /\ CallbacksIdle /\ FilesIdle
InitEngine ==
    /\ SnapIdle /\ BridgeIdle /\ PluginIdle /\ ToolsIdle /\ EngineInit /\ FailureIdle
    /\ CallbacksIdle /\ FilesIdle
InitFailure ==
    /\ SnapIdle /\ BridgeIdle /\ PluginIdle /\ ToolsIdle /\ EngineIdle /\ FailureInit
    /\ CallbacksIdle /\ FilesIdle
InitCallbacks ==
    /\ SnapIdle /\ BridgeIdle /\ PluginIdle /\ ToolsIdle /\ EngineIdle /\ FailureIdle
    /\ CallbacksInit /\ FilesIdle
InitFiles ==
    /\ SnapIdle /\ BridgeIdle /\ PluginIdle /\ ToolsIdle /\ EngineIdle /\ FailureIdle
    /\ CallbacksIdle /\ FilesInit

SpecSnapshot == InitSnapshot /\ [][SnapNext]_vars
SpecBridge == InitBridge /\ [][BridgeNext]_vars
SpecPlugin == InitPlugin /\ [][PluginNext]_vars
SpecTools == InitTools /\ [][ToolsNext]_vars
SpecEngine == InitEngine /\ [][EngineNext]_vars
SpecFailure == InitFailure /\ [][FailureNext]_vars
SpecCallbacks == InitCallbacks /\ [][CallbacksNext]_vars
SpecFiles == InitFiles /\ [][FilesNext]_vars

\* The router, the content script and the agent take their steps; the senders,
\* the user and the pages need not
FairBridge ==
    SpecBridge /\ WF_vars(BridgeProgress)

(***************************************************************************)
(* Claims                                                                  *)
(***************************************************************************)
HasId(resp, id) == "id" \in DOMAIN resp /\ resp.id = id
IsFailure(resp) == "success" \in DOMAIN resp /\ resp.success = FALSE
Flagged(o) == "_truncated" \in DOMAIN o /\ o["_truncated"]

\* C1: every Response a sender receives for a Command carries that Command's id,
\* whether it reports success or failure.
C1_ResponseIdIsCommandId ==
    \A r \in Reqs :
        (req[r].pc = "done" /\ req[r].hasCmd) => HasId(req[r].resp, r)

\* C2: every Command that is sent gets exactly one Response delivered to its
\* sender: never two, and eventually one (a timeout is such a Response).
C2_ExactlyOneResponse ==
    /\ [](\A r \in Reqs : req[r].nresp <= 1)
    /\ \A r \in Reqs :
          (req[r].pc # "idle" /\ req[r].hasCmd) ~> (req[r].nresp = 1)

\* C3: launch() is invoked at most once between the session's creation and its
\* close, however the tool executions interleave.
C3_LaunchAtMostOnce == launchCalls <= 1

\* C4: in the content script no Command is passed to agent.execute() before a
\* launch() of that agent has completed.
C4_NoExecuteBeforeLaunch == \A r \in Reqs : req[r].launched # "no"

\* C5: a Command that was outstanding when browser_close completed settles with
\* a failure.
C5_OutstandingFailOnClose ==
    \A k \in Calls :
        (call[k].atClose /\ call[k].pc = "done") => call[k].result = "thrown"

\* C6 as stated: a tool call received after browser_close has completed fails
\* without its Command being executed.
C6_ClosedFailsFast ==
    \A k \in Calls :
        (call[k].startEpoch > 0 /\ call[k].tool = "browser_navigate")
            => /\ call[k].launched = "na"
               /\ call[k].pc = "done" => call[k].result = "thrown"

\* C6 as amended: a tool call received after browser_close has completed is
\* executed only after a launch() of the agent has completed since that close.
C6_RelaunchAfterClose ==
    \A k \in Calls : call[k].startEpoch > 0 => call[k].launched # "no"

C6_Witness ==
    \E k \in Calls :
        /\ call[k].startEpoch > 0
        /\ call[k].launched = "yes"
        /\ call[k].pc = "done"

\* C7: a message whose target context is unreachable (no tab, no listener in the
\* tab, or the tab torn down) never hangs and never rejects: until it is settled
\* the handler's next step waits for nothing but the router itself, and it is
\* settled with a Response whose success is false.
C7_UnreachableResolvesFalse ==
    \A r \in Reqs :
        req[r].why # "" =>
            IF req[r].pc = "done"
            THEN IsFailure(req[r].resp) /\ req[r].nresp = 1
            ELSE ENABLED RouterCatch(r)

C7_Witness ==
    \E r \in Reqs :
        /\ req[r].pc = "done"
        /\ req[r].why = "closed"
        /\ IsFailure(req[r].resp)

\* C8: when the page accepts a Command and never replies, the sender's promise
\* is eventually resolved, with { success: false, error: "timeout" } unless the
\* context was torn down meanwhile.
C8_TimeoutOnSilence ==
    \A r \in Reqs :
        (req[r].pc = "hung") ~>
            /\ req[r].pc = "done"
            /\ req[r].why = "" => req[r].resp = [success |-> FALSE, error |-> "timeout"]

\* C9: what browser_snapshot returns never serializes to more than
\* maxSnapshotSize characters.
C9_OutputWithinLimit ==
    snapPc = "done" => Len(JSONStringify(snapOut)) <= maxSnapshotSize

\* C10: the result is flagged _truncated exactly when the snapshot serializes to
\* more than maxSnapshotSize characters, and is the snapshot itself otherwise.
C10_FlaggedIffOverLimit ==
    snapPc = "done" =>
        /\ Flagged(snapOut) <=> Len(JSONStringify(snapIn)) > maxSnapshotSize
        /\ Len(JSONStringify(snapIn)) <= maxSnapshotSize => snapOut = snapIn

C10_Witness ==
    /\ snapPc = "done"
    /\ Len(JSONStringify(snapIn)) = maxSnapshotSize
    /\ snapOut = snapIn

\* The position a plugin's tag gives it in the pipeline
Rank(tag) == CASE tag = "pre" -> 1 [] tag = "normal" -> 2 [] tag = "post" -> 3

\* Plugin i comes before plugin j in pipeline order
Precedes(i, j) ==
    \/ Rank(plugins[i].enforce) < Rank(plugins[j].enforce)
    \/ plugins[i].enforce = plugins[j].enforce /\ i < j

\* The engine has run a stage to its end
StagePassed(stage) ==
    CASE stage = "configureContext" ->
             enginePc \in {"transformParams", "provider", "transformResult", "done"}
      [] stage = "transformParams" -> enginePc \in {"provider", "transformResult", "done"}
      [] stage = "transformResult" -> enginePc = "done"

\* C11: within one run each sequential stage visits the plugins in the order
\* pre, normal, post, each group in registration order; a plugin's stage never
\* starts before the previous plugin's has finished; the btcp-browser plugin
\* runs its transformParams before every normal and post plugin.
C11_PipelineOrder ==
    /\ Cardinality(inStage) <= 1
    /\ \A a, b \in 1..Len(stageLog) :
          a < b /\ stageLog[a].stage = stageLog[b].stage
              => Precedes(stageLog[a].plugin, stageLog[b].plugin)
    /\ \A stage \in SequentialStages :
          StagePassed(stage) =>
              \A p \in 1..Len(plugins) :
                  \E a \in 1..Len(stageLog) : stageLog[a] = [stage |-> stage, plugin |-> p]
    /\ \A b \in 1..Len(stageLog), p \in 1..Len(plugins) :
          /\ stageLog[b].stage = "transformParams"
          /\ plugins[stageLog[b].plugin].enforce \in {"normal", "post"}
          /\ plugins[p].name = "btcp-browser"
          => \E a \in 1..(b - 1) : stageLog[a] = [stage |-> "transformParams", plugin |-> p]

\* A finished run in which a post plugin and a normal plugin were registered
\* before the btcp-browser plugin
C11_Witness ==
    /\ enginePc = "done"
    /\ Len(plugins) = 3
    /\ plugins[1].enforce = "post"
    /\ plugins[2].enforce = "normal"
    /\ plugins[3].name = "btcp-browser"

\* C12: after the btcp-browser plugin's transformParams every tool name that
\* was in params.tools before the call is still present, and every
\* pre-existing tool whose name is not a browser tool name keeps its descriptor.
C12_MergeKeepsExistingTools ==
    tpPc = "returned" =>
        \A i \in 1..Len(paramsBefore.tools) :
            LET e == paramsBefore.tools[i] IN
            /\ e.name \in Names(params.tools)
            /\ e.name \notin Names(createBrowserTools)
                   => ValueOf(params.tools, e.name) = e.tool

\* The plugin added tools to params that held a host tool of each kind
C12_Witness ==
    /\ tpPc = "returned"
    /\ enabled
    /\ Names(paramsBefore.tools) = {"web_search", "browser_click"}
    /\ Names(paramsBefore.tools) # Names(params.tools)
    /\ ValueOf(params.tools, "browser_click") = BtcpTool

\* A plugin's transformParams threw, and that call has ended
ThrewInTransformParams ==
    \E a \in 1..Len(stageLog) :
        /\ stageLog[a].stage = "transformParams"
        /\ plugins[stageLog[a].plugin].throws = "transformParams"
        /\ stageLog[a].plugin \notin inStage

\* C13: if a plugin's transformParams throws during a run, the provider call
\* is never made for that request and the request fails.
C13_ThrowAbortsBeforeProvider ==
    ThrewInTransformParams => providerCalls = 0 /\ enginePc = "failed"

\* The second plugin in pipeline order threw after the first had returned
C13_Witness ==
    /\ ThrewInTransformParams
    /\ enginePc = "failed"
    /\ \E a \in 1..Len(stageLog) :
          /\ stageLog[a].stage = "transformParams"
          /\ plugins[stageLog[a].plugin].throws = "none"

\* The names filterTools exposes from the table under a preset
ExposedUnder(preset) == Names(filterTools(PresetName(preset), allTools).tools)

\* C14: for every tool table, the tools exposed under minimal are among those
\* exposed under standard, which are among those exposed under full.
C14_PresetsMonotone ==
    filtered.called =>
        /\ ExposedUnder("minimal") \subseteq ExposedUnder("standard")
        /\ ExposedUnder("standard") \subseteq ExposedUnder("full")
        /\ toolset = PresetName("minimal")
               => Names(filtered.tools) \subseteq ExposedUnder("standard")
        /\ toolset = PresetName("standard")
               => Names(filtered.tools) \subseteq ExposedUnder("full")

\* filterTools ran under minimal on a table of which each preset exposes more
C14_Witness ==
    /\ filtered.called
    /\ toolset = PresetName("minimal")
    /\ filtered.tools # <<>>
    /\ ExposedUnder("minimal") # ExposedUnder("standard")
    /\ ExposedUnder("standard") # ExposedUnder("full")

\* The names of the tools in params.tools that are the plugin's own
AddedByPlugin ==
    {params.tools[i].name : i \in {j \in 1..Len(params.tools) : params.tools[j].tool = BtcpTool}}

\* C15: the tools the plugin adds in transformParams include browser_evaluate
\* only when the toolset is the preset full or an explicit list naming it;
\* never under minimal, standard or an unknown preset name.
C15_EvaluateOnlyUnderFull ==
    "browser_evaluate" \in AddedByPlugin =>
        \/ toolset = PresetName("full")
        \/ toolset.isArray /\ Includes(toolset.names, "browser_evaluate")

\* Under an unknown preset name the plugin added tools, browser_evaluate not
\* among them
C15_Witness ==
    /\ tpPc = "returned"
    /\ toolset = PresetName("custom")
    /\ "browser_click" \in AddedByPlugin
    /\ "browser_evaluate" \notin AddedByPlugin

\* C16: for every selector string that is not minimal, standard or full,
\* filterTools returns the same tool set as for standard, and does not fail.
C16_UnknownFallsBackToStandard ==
    filtered.called /\ ~toolset.isArray /\ toolset.name \notin DOMAIN TOOL_PRESETS
        => /\ ~filtered.threw
           /\ filtered.tools = filterTools(PresetName("standard"), allTools).tools

\* The names a selector selects: those of the list, or of the preset
SelectedNames(ts) ==
    IF ts.isArray THEN {ts.names[i] : i \in 1..Len(ts.names)}
    ELSE {TOOL_PRESETS[ts.name][i] : i \in 1..Len(TOOL_PRESETS[ts.name])}

\* The place of a name among the keys of an object
IndexIn(obj, name) == CHOOSE i \in 1..Len(obj) : obj[i].name = name

FilterResultExact ==
    filtered.called /\ (toolset.isArray \/ toolset.name \in DOMAIN TOOL_PRESETS) =>
        /\ ~filtered.threw
        /\ \A i \in 1..Len(filtered.tools) :
              \E k \in 1..Len(allTools) : allTools[k] = filtered.tools[i]
        /\ \A k \in 1..Len(allTools) :
              allTools[k].name \in SelectedNames(toolset)
                  <=> \E i \in 1..Len(filtered.tools) : filtered.tools[i] = allTools[k]
        /\ \A i, j \in 1..Len(filtered.tools) :
              i < j => IndexIn(allTools, filtered.tools[i].name)
                           < IndexIn(allTools, filtered.tools[j].name)

\* C17: for every tool table and every selector (a preset, or a list that may
\* hold unknown or repeated names) the result holds exactly the entries of
\* allTools whose name is selected, in the insertion order of allTools, no
\* name absent from allTools, and allTools is not modified.
C17_FilterPureOrderPreserving ==
    []FilterResultExact /\ [][allTools' = allTools]_vars

\* A list naming two tools in the reverse of the table's order
C17_Witness ==
    /\ filtered.called
    /\ toolset = NameList(<<"browser_evaluate", "browser_click">>)
    /\ Len(filtered.tools) = 2
    /\ filtered.tools[1].name = "browser_click"

\* C18: every Response with success: false that a sender can receive carries a
\* non-empty error string.
C18_FailureCarriesError ==
    producer # "" /\ IsFailure(failure)
        => "error" \in DOMAIN failure /\ failure.error # ""

C23_DisabledLeavesParams ==
    tpPc # "idle" =>
        /\ ~enabled => tpPc = "returned" /\ params = paramsBefore
        /\ ~injectSystemPrompt => params.system = paramsBefore.system

\* A disabled plugin was called with a prompt lacking the hint, tools present,
\* an injecting configuration and a toolset for which filterTools throws
C23_Witness ==
    /\ tpPc = "returned"
    /\ ~enabled
    /\ injectSystemPrompt
    /\ toolset = PresetName("constructor")
    /\ params.system = <<"You are a helpful assistant.">>
    /\ params.tools # <<>>

\* C28: applying transformParams again to params it has already transformed
\* yields the same system text and the same set of tool names: the usage hint
\* is appended at most once, for every initial system value.
C28_InjectionIdempotent ==
    [][tpPc = "returned" /\ tpPc' = "returned"
          => /\ params'.system = params.system
             /\ Names(params'.tools) = Names(params.tools)]_vars

\* The second call on a prompt to which the first call appended the hint
C28_Witness ==
    /\ tpPc = "returned"
    /\ enabled
    /\ injectSystemPrompt
    /\ paramsBefore.system = <<"You are a helpful assistant.", BROWSER_SYSTEM_PROMPT>>
    /\ params = paramsBefore

\* C22: once the plugin holds an agent it keeps that agent for every later
\* tool execution, and neither configureContext nor onRequestEnd constructs,
\* launches or closes an agent (transformParams: see SpecTools, which leaves
\* the session untouched).
C22_AgentPersists ==
    [][/\ agent # "null" => agent' = agent
       /\ configureContext \/ onRequestEnd
              => UNCHANGED <<agent, agentLaunched, launchCalls, closeCount, call>>]_vars

\* A request that began when the plugin already held the agent it had made,
\* closed since by browser_close, runs a tool on that agent
C22_Witness ==
    /\ agent = "own"
    /\ closeCount > 0
    /\ contextAgent = "own"
    /\ \E k \in Calls : call[k].pc = "await_execute" /\ call[k].startEpoch > 0

\* C24: a tool that dispatches a Command returns { success: true } only if the
\* agent's Response to that Command had success: true.
C24_SuccessOnlyForSuccessfulCommand ==
    \A k \in Calls :
        call[k].tool = "browser_navigate" /\ call[k].pc = "done" /\ call[k].result = "ok"
            => call[k].response = "ok"

\* C26: the plugin never calls launch() on an agent supplied through
\* config.agent.
C26_ProvidedAgentNotLaunched ==
    agent = "provided" =>
        /\ launchCalls = 0
        /\ \A k \in Calls : call[k].pc # "await_launch"

\* C29: while a request is in progress and the plugin holds an agent,
\* context.btcpAgent is that agent.
C29_ContextAgentCurrent ==
    contextAgent # "none" /\ agent # "null" => contextAgent = agent

\* C21: a btcp:* message naming a tabId is forwarded to that tab whichever tab
\* is active; one without a target is forwarded to the tab active when the
\* router resolves it, not the one active when it was sent; either way to one
\* tab, at most once.
C21_TargetResolvedAtDispatch ==
    [][\A r \in Reqs :
          /\ \A tab \in Tabs, hasCmd \in BOOLEAN :
                 handleMessage(r, tab, hasCmd) => req'[r].target = tab
          /\ QueryDone(r) =>
                 IF activeTab = 0
                 THEN req'[r].pc = "done" /\ req'[r].resp = NoActiveTab
                 ELSE req'[r].target = activeTab
          /\ req[r].target # 0 => req'[r].target \in {req[r].target, 0}
          /\ req[r].pc \in {"rejected", "done"} => req'[r].pc \in {"rejected", "done"}]_vars

\* A message without a target is being delivered to a tab other than the one
\* that was active when it was sent
C21_Witness ==
    \E r \in Reqs :
        /\ req[r].pc = "delivering"
        /\ req[r].issuedActive # 0
        /\ req[r].issuedActive # req[r].target

\* C25: no Command is executed on an agent whose launch attempt failed: after
\* a failed launch() the next Command launches again before it executes.
C25_NoExecuteAfterFailedLaunch ==
    \A r \in Reqs :
        req[r].pc = "executing" =>
            ~(launchFailed[req[r].target] /\ ~launchDone[req[r].target])

\* C27: every tool execution invokes each configured callback in order:
\* onToolCall once before the operation, then exactly one of onToolResult (the
\* operation returned) and onError (it threw), never both; and the tool call
\* throws exactly when the operation threw, with the operation's error.
CallbackCount(cb) == Cardinality({i \in 1..Len(cbLog) : cbLog[i].cb = cb})

Configured(cb) == callbacks[cb] # "absent"

C27_CallbackOrdering ==
    /\ cbPc = "executing" =>
          /\ Configured("onToolCall") => cbLog = <<[cb |-> "onToolCall", tool |-> cbTool]>>
          /\ ~Configured("onToolCall") => cbLog = <<>>
    /\ cbPc \in {"returned", "threw"} =>
          /\ Configured("onToolCall") =>
                /\ CallbackCount("onToolCall") = 1
                /\ cbLog[1].cb = "onToolCall"
          /\ cbOperation = "returned" =>
                /\ Configured("onToolResult") => CallbackCount("onToolResult") = 1
                /\ CallbackCount("onError") = 0
          /\ cbOperation = "threw" =>
                /\ Configured("onError") => CallbackCount("onError") = 1
                /\ CallbackCount("onToolResult") = 0
          /\ Configured("onToolResult") /\ Configured("onError") =>
                CallbackCount("onToolResult") + CallbackCount("onError") = 1
          /\ cbPc = "threw" <=> cbOperation = "threw"
          /\ cbPc = "threw" => cbError = "operation"

\* C30: when move_file or rename_file reports success on a source that was a
\* file, the destination is a file holding the content the source had before
\* the call.
C30_MovePreservesContent ==
    fileOp.success =>
        /\ IsFile(fs, fileOp.destination)
        /\ fs[fileOp.destination].content = fileOp.before

=============================================================================
